---- MODULE Spec2Model ----
(***************************************************************************)
(* Model of src/queryanalyzer.py: a Streamlit script that keeps its state  *)
(* in st.session_state and is re-executed from the top on every user       *)
(* interaction.  One step of the model is one execution of the script      *)
(* ("run"): the App Flow dispatch on session_state.page followed by one    *)
(* page handler, up to the end of the script, an st.rerun() or an uncaught *)
(* exception.                                                              *)
(*                                                                         *)
(* Strings whose content matters are modelled structurally:                *)
(*   - the headings text area is a sequence of characters;                 *)
(*   - the transcript is the sequence of rendered segment lines that       *)
(*     transcribe_audio joins with "\n" (the empty sequence is "");        *)
(*   - a generated text is a record that carries the prompt it answers.    *)
(***************************************************************************)
EXTENDS Integers, Sequences, FiniteSets, TLC

\* ------------------------------------------------------------------ bounds
\* recordings taken in during one session
MaxRecordings == 2
\* calls of transcribe_audio for one recording
MaxTranscribe == 2
\* messages in the chat log
MaxMsgs == 8
\* messages in the chat log where the log is not what is looked at
SampleMsgs == 2
\* characters typed in the "Slide Headings" text area
MaxHeadingsLen == 3

\* --------------------------------------------------------------- constants
\* st.session_state.messages[-5:]
HistoryWindow == 5

\* Python's None, and the empty str ""
None == [kind |-> "None"]
EmptyStr == [kind |-> "str", text |-> ""]

NL == "\n"
SP == " "
\* characters a user types in the headings text area
Chars == {NL, SP, "a", "b"}
\* questions a user types in the chat input (st.chat_input returns a
\* non-empty string or None)
Questions == {"q1", "q2"}
SampleQuestions == {"q1"}

Pages == {"main", "summary", "ppt", "chat"}

\* outcomes of the speech-to-text / alignment library
TranscribeOutcomes == {"segments", "no_segments", "raise"}
\* outcomes of model.generate_content(...).text
GenOutcomes == {"text", "raise"}

\* ------------------------------------------------------------ str helpers
RECURSIVE SeqsUpTo(_, _)
SeqsUpTo(S, n) ==
    IF n = 0 THEN {<<>>}
    ELSE LET shorter == SeqsUpTo(S, n - 1)
         IN  shorter \cup {Append(s, c) : s \in {t \in shorter : Len(t) = n - 1}, c \in S}

\* values of the headings text area
HeadingTexts == SeqsUpTo(Chars, MaxHeadingsLen)
\* line 243: the text the text area starts with, "Introduction\nKey
\* Findings\n...", cut down to two headings
DefaultHeadings == <<"a", NL, "b">>

IsSpace(c) == c \in {SP, NL}

\* str.split(sep): the pieces between the separators; "".split(sep) is [""]
RECURSIVE split(_, _)
split(s, sep) ==
    IF \A i \in 1..Len(s) : s[i] # sep THEN <<s>>
    ELSE LET i == CHOOSE j \in 1..Len(s) :
                     s[j] = sep /\ \A k \in 1..(j - 1) : s[k] # sep
         IN  <<SubSeq(s, 1, i - 1)>> \o split(SubSeq(s, i + 1, Len(s)), sep)

\* str.strip(): leading and trailing whitespace removed
RECURSIVE strip(_)
strip(s) ==
    IF s = <<>> THEN s
    ELSE IF IsSpace(Head(s)) THEN strip(Tail(s))
    ELSE IF IsSpace(s[Len(s)]) THEN strip(SubSeq(s, 1, Len(s) - 1))
    ELSE s

\* [f(x) for x in xs if p(x)] for f = strip and p = "strip(x) is truthy"
RECURSIVE stripped_nonblank(_)
stripped_nonblank(ls) ==
    IF ls = <<>> THEN <<>>
    ELSE (IF strip(Head(ls)) # <<>> THEN <<strip(Head(ls))>> ELSE <<>>)
         \o stripped_nonblank(Tail(ls))

\* faulty variant: the filter tests h instead of h.strip()
RECURSIVE stripped_nonempty(_)
stripped_nonempty(ls) ==
    IF ls = <<>> THEN <<>>
    ELSE (IF Head(ls) # <<>> THEN <<strip(Head(ls))>> ELSE <<>>)
         \o stripped_nonempty(Tail(ls))

heading_lines_unstripped_filter(headings) == stripped_nonempty(split(headings, NL))

\* line 96: [h.strip() for h in headings.split('\n') if h.strip()]
heading_lines(headings) == stripped_nonblank(split(headings, NL))

\* Python truthiness of the values held in the session: None and "" are
\* falsy, an UploadedFile or a path is truthy
Truthy(v) == v # None /\ v # EmptyStr

\* ---------------------------------------------------------- session state
VARIABLES
    page, transcription, summary, audio_data, audio_path,
    messages, ppt_path, summary_path,
    \* Streamlit runtime: a rerun is pending; widgets the last run rendered;
    \* the text in the "Slide Headings" text area (line 242)
    rerun, shown, headings,
    \* what the last step did (the run's locals and its output)
    lastOp, genCalls, uncaught, errors, prs, created, history,
    \* bookkeeping: recordings taken in; transcribe_audio calls for the
    \* current recording
    nRecordings, nTranscribe

session == <<page, transcription, summary, audio_data, audio_path,
             messages, ppt_path, summary_path>>
runtime == <<rerun, shown, headings>>
observed == <<lastOp, genCalls, uncaught, errors, prs, created, history>>
counters == <<nRecordings, nTranscribe>>
vars == <<session, runtime, observed, counters>>

\* lines 27-38
session_defaults ==
    [page |-> "main", transcription |-> <<>>, summary |-> EmptyStr,
     audio_data |-> None, audio_path |-> EmptyStr, messages |-> <<>>,
     ppt_path |-> None, summary_path |-> None]

\* --------------------------------------------------- external collaborators
\* the st.audio_input value of the n-th recording, and the temporary .wav
\* file main_page copies it to (lines 175-178)
Upload(n) == [kind |-> "UploadedFile", id |-> n]
wav_path(audio) == [kind |-> "path", suffix |-> ".wav", id |-> audio.id]

\* lines 45-61: the "\n".join of one rendered line "[start s] text" per
\* aligned segment; no try/except, so a library error leaves the function
transcribe_audio(path, outcome) ==
    [raised |-> outcome = "raise",
     text   |-> IF outcome = "segments"
                THEN <<[start |-> 0, text |-> path.id]>>
                ELSE <<>>]

\* the text of a response of model.generate_content: opaque, identified by
\* the prompt it answers
response_text(prompt) == [kind |-> "str", text |-> "response", prompt |-> prompt]

\* lines 63-81
generate_summary(T, outcome) ==
    IF outcome = "raise"
    THEN [kind |-> "str", text |-> "Error generating summary",
          prompt |-> [template |-> "summary", transcription |-> T]]
    ELSE response_text([template |-> "summary", transcription |-> T])

\* faulty variant: the window is taken from the front of the log
first_messages(msgs) == SubSeq(msgs, 1, IF Len(msgs) < HistoryWindow THEN Len(msgs) ELSE HistoryWindow)

\* line 128: st.session_state.messages[-5:]
last_messages(msgs) ==
    LET n     == Len(msgs)
        start == IF n - HistoryWindow < 0 THEN 0 ELSE n - HistoryWindow
    IN  SubSeq(msgs, start + 1, n)

\* lines 124-150: the reply, and the HISTORY field of the prompt it was asked
\* with
chat_response(prompt, T, msgs, outcome) ==
    LET hist == last_messages(msgs)
    IN  [history |-> hist,
         text    |-> IF outcome = "raise"
                     THEN [kind |-> "str", text |-> "Error", question |-> prompt]
                     ELSE [kind |-> "str", text |-> "response", question |-> prompt]]

\* heading_lines, tabulated over the texts the text area can hold
heading_table == [hd \in HeadingTexts |-> heading_lines(hd)]

\* lines 97-100: the content slide of one heading
content_slide(heading) == [layout |-> 1, title |-> heading]

RECURSIVE content_slides(_)
content_slides(ls) ==
    IF ls = <<>> THEN <<>> ELSE <<content_slide(Head(ls))>> \o content_slides(Tail(ls))

\* lines 83-122.  failAt = j > 0: model.generate_content raises for the j-th
\* heading; saveOk: prs.save succeeds.  prs is the Presentation as built when
\* the function returns, calls the number of generate_content calls made.
create_presentation(title, hd, T, failAt, saveOk) ==
    LET ls          == heading_table[hd]
        title_slide == [layout |-> 0, title |-> title]
        reached     == IF failAt > 0 THEN SubSeq(ls, 1, failAt) ELSE ls
        failed      == failAt > 0 \/ ~saveOk
    IN  [prs   |-> <<title_slide>> \o content_slides(reached),
         calls |-> Len(reached),
         error |-> failed,
         ret   |-> IF failed THEN None
                   ELSE [kind |-> "path", suffix |-> ".pptx", transcription |-> T]]

\* ------------------------------------------------------------------- Init
Init ==
    /\ page = session_defaults.page
    /\ transcription = session_defaults.transcription
    /\ summary = session_defaults.summary
    /\ audio_data = session_defaults.audio_data
    /\ audio_path = session_defaults.audio_path
    /\ messages = session_defaults.messages
    /\ ppt_path = session_defaults.ppt_path
    /\ summary_path = session_defaults.summary_path
    /\ rerun = TRUE
    /\ shown = {}
    /\ lastOp = "start"
    /\ genCalls = 0
    /\ uncaught = FALSE
    /\ errors = {}
    /\ headings = DefaultHeadings
    /\ prs = <<>>
    /\ created = None
    /\ history = <<>>
    /\ nRecordings = 0
    /\ nTranscribe = 0

\* what a run leaves to look at; the deck and chat fields are set by the runs
\* that have them
Observe(op, gen, unc, errs) ==
    /\ lastOp' = op
    /\ genCalls' = gen
    /\ uncaught' = unc
    /\ errors' = errs

NoDeck == prs' = <<>> /\ created' = None
NoChat == history' = <<>>

\* the script runs because of st.rerun() (or the session's first run), or
\* because the user used a widget that the last run rendered
Triggered(ev, widget) ==
    IF ev = "rerun" THEN rerun ELSE ~rerun /\ widget \in shown

\* ------------------------------------------------------------ main_page
\* faulty variant: "New Session" leaves the chat log alone
new_session_keeps_messages ==
    [audio_data |-> None, audio_path |-> EmptyStr, transcription |-> <<>>,
     messages |-> messages]

\* lines 166-169: what "New Session" assigns
new_session ==
    [audio_data |-> None, audio_path |-> EmptyStr, transcription |-> <<>>,
     messages |-> <<>>]

\* faulty variant: the action buttons are drawn whatever the transcript
actions_always(T) == TRUE

\* line 184: the transcript expander and the three action buttons are drawn
actions_rendered(T) == T # <<>>

\* lines 153-205.  ev: what made the script run; out: what the speech-to-text
\* library does if it is called
main_page(ev, out) ==
    /\ ev \in {"rerun", "record", "new_session", "summary", "ppt", "chat"}
    /\ Triggered(ev, IF ev \in {"summary", "ppt", "chat"} THEN "actions"
                     ELSE IF ev = "record" THEN "recorder" ELSE ev)
    /\ LET recorder_rendered    == audio_data = None                 \* line 159
           recorder             == IF recorder_rendered /\ ev = "record"
                                   THEN Upload(nRecordings + 1) ELSE None
           new_session_rendered == Truthy(audio_data)                \* line 165
       IN  IF new_session_rendered /\ ev = "new_session"
           THEN \* lines 166-170
                /\ out = "segments"
                /\ audio_data' = new_session.audio_data
                /\ audio_path' = new_session.audio_path
                /\ transcription' = new_session.transcription
                /\ messages' = new_session.messages
                /\ UNCHANGED <<page, summary, ppt_path, summary_path, nRecordings>>
                /\ nTranscribe' = 0
                /\ rerun' = TRUE /\ shown' = {}
                /\ UNCHANGED headings
                /\ Observe("new_session", 0, FALSE, {}) /\ NoDeck /\ NoChat
           ELSE LET intake == audio_data = None /\ recorder # None   \* lines 173-174
                    a1     == IF intake THEN recorder ELSE audio_data
                    p1     == IF intake THEN wav_path(recorder) ELSE audio_path
                    n1     == IF intake THEN 0 ELSE nTranscribe
                    call   == Truthy(a1) /\ transcription = <<>>     \* line 181
                    tr     == transcribe_audio(p1, out)
                    t1     == IF call /\ ~tr.raised THEN tr.text ELSE transcription
                    died   == call /\ tr.raised
                    drawn  == (IF recorder_rendered THEN {"recorder"} ELSE {})
                              \cup (IF new_session_rendered THEN {"new_session"} ELSE {})
                    go     == ~died /\ actions_rendered(t1) /\ ev \in {"summary", "ppt", "chat"}
                IN  /\ intake => nRecordings < MaxRecordings
                    /\ call => n1 < MaxTranscribe
                    /\ ~call => out = "segments"
                    /\ audio_data' = a1
                    /\ audio_path' = p1
                    /\ transcription' = t1
                    /\ nRecordings' = IF intake THEN nRecordings + 1 ELSE nRecordings
                    /\ nTranscribe' = IF call THEN n1 + 1 ELSE n1
                    /\ page' = IF go THEN ev ELSE page               \* lines 193-205
                    /\ rerun' = go
                    /\ shown' = IF go THEN {}
                                ELSE IF died THEN drawn
                                ELSE drawn \cup (IF actions_rendered(t1) THEN {"actions"} ELSE {})
                    /\ UNCHANGED <<summary, messages, ppt_path, summary_path, headings>>
                    /\ Observe(IF go THEN "navigate" ELSE "main_page", 0, died, {})
                    /\ NoDeck /\ NoChat

\* --------------------------------------------------------- summary_page
\* faulty variant: the summary is generated on every visit
summary_always_missing(s) == TRUE

\* line 214: not st.session_state.summary
summary_missing(s) == ~Truthy(s)

\* lines 219-221: the temporary file the summary is written to
summary_file(s) == [kind |-> "path", suffix |-> ".txt", content |-> s]

\* lines 207-230.  out: what model.generate_content does if it is called;
\* fileOk: writing the temporary file succeeds
summary_page(ev, out, fileOk) ==
    /\ ev \in {"rerun", "back", "download"}
    /\ Triggered(ev, ev)
    /\ IF ev = "back"
       THEN \* lines 210-212
            /\ out = "text" /\ fileOk
            /\ page' = "main"
            /\ rerun' = TRUE /\ shown' = {}
            /\ UNCHANGED <<transcription, summary, audio_data, audio_path,
                           messages, ppt_path, summary_path, counters, headings>>
            /\ Observe("back", 0, FALSE, {}) /\ NoDeck /\ NoChat
       ELSE LET need   == summary_missing(summary)                   \* line 214
                s1     == IF need THEN generate_summary(transcription, out) ELSE summary
                wrote  == need /\ fileOk
                sp1    == IF wrote THEN summary_file(s1) ELSE summary_path
                \* the write (line 219) or open(summary_path) (line 227) raises
                died   == (need /\ ~fileOk) \/ sp1 = None
            IN  /\ ~need => (out = "text" /\ fileOk)
                /\ summary' = s1
                /\ summary_path' = sp1
                /\ rerun' = FALSE
                /\ shown' = IF died THEN {"back"} ELSE {"back", "download"}
                /\ UNCHANGED <<page, transcription, audio_data, audio_path,
                               messages, ppt_path, counters, headings>>
                /\ Observe("summary_page", IF need THEN 1 ELSE 0, died,
                           IF ~died /\ s1.text = "Error generating summary"
                           THEN {"Error generating summary"} ELSE {})
                /\ NoDeck /\ NoChat

\* ------------------------------------------------------------- ppt_page
\* line 241: the default of the "Presentation Title" input
Title == "Voice Analysis Report"

\* faulty variant: a failed export leaves the path of an earlier export in place
ppt_path_kept_on_failure(old, ret) == IF ret = None THEN old ELSE ret

\* line 248: st.session_state.ppt_path = ppt_path
ppt_path_assigned(old, ret) == ret

\* lines 232-257.  failAt, saveOk: see create_presentation.  The text area
\* is drawn with its default when the page is entered, and keeps what the
\* user typed while the page stays
ppt_page(ev, failAt, saveOk) ==
    /\ ev \in {"rerun", "back", "submit", "download"}
    /\ Triggered(ev, IF ev = "submit" THEN "form" ELSE ev)
    /\ IF ev = "back"
       THEN \* lines 235-237
            /\ failAt = 0 /\ saveOk
            /\ page' = "main"
            /\ rerun' = TRUE /\ shown' = {}
            /\ headings' = DefaultHeadings
            /\ UNCHANGED <<transcription, summary, audio_data, audio_path,
                           messages, ppt_path, summary_path, counters>>
            /\ Observe("back", 0, FALSE, {}) /\ NoDeck /\ NoChat
       ELSE IF ev = "submit"
       THEN \* lines 245-248
            LET r   == create_presentation(Title, headings, transcription, failAt, saveOk)
                pp1 == ppt_path_assigned(ppt_path, r.ret)
            IN  /\ failAt <= Len(heading_table[headings])
                /\ failAt > 0 => saveOk
                /\ ppt_path' = pp1
                /\ rerun' = FALSE
                /\ shown' = {"back", "form"}
                            \cup (IF Truthy(pp1) THEN {"download"} ELSE {})  \* line 250
                /\ UNCHANGED <<page, transcription, summary, audio_data, audio_path,
                               messages, summary_path, counters, headings>>
                /\ Observe("submit", r.calls, FALSE,
                           IF r.error THEN {"PPT Error"} ELSE {})
                /\ prs' = r.prs /\ created' = r.ret
                /\ NoChat
       ELSE /\ failAt = 0 /\ saveOk
            /\ rerun' = FALSE
            /\ shown' = {"back", "form"}
                        \cup (IF Truthy(ppt_path) THEN {"download"} ELSE {})
            /\ UNCHANGED <<session, counters, headings>>
            /\ Observe("ppt_page", 0, FALSE, {}) /\ NoDeck /\ NoChat

\* line 242: the user edits the text area: a character typed at the end, or
\* the last one deleted.  Inside st.form this runs no script: the text is
\* sent with the submit button
edit_headings(key) ==
    LET hd == IF key = "backspace"
              THEN SubSeq(headings, 1, Len(headings) - 1)
              ELSE Append(headings, key)
    IN  /\ ~rerun /\ "form" \in shown
        /\ key = "backspace" => headings # <<>>
        /\ Len(hd) <= MaxHeadingsLen
        /\ headings' = hd
        /\ UNCHANGED <<session, counters, rerun, shown>>
        /\ Observe("edit", 0, FALSE, {}) /\ NoDeck /\ NoChat

\* ------------------------------------------------------------ chat_page
user_message(q) == [role |-> "user", content |-> [kind |-> "str", text |-> q]]
assistant_message(text) == [role |-> "assistant", content |-> text]

\* faulty variant: a failed generation leaves the question unanswered
reply_dropped_on_error(msgs, text) ==
    IF text.text = "Error" THEN msgs ELSE Append(msgs, assistant_message(text))

\* line 279
reply_appended(msgs, text) == Append(msgs, assistant_message(text))

\* lines 259-280.  q: the question typed; out: what model.generate_content
\* does
chat_page(ev, q, out) ==
    /\ ev \in {"rerun", "back", "ask"}
    /\ Triggered(ev, IF ev = "ask" THEN "chat_input" ELSE ev)
    /\ IF ev = "back"
       THEN \* lines 262-264
            /\ out = "text"
            /\ page' = "main"
            /\ rerun' = TRUE /\ shown' = {}
            /\ UNCHANGED <<transcription, summary, audio_data, audio_path,
                           messages, ppt_path, summary_path, counters, headings>>
            /\ Observe("back", 0, FALSE, {}) /\ NoDeck /\ NoChat
       ELSE IF ev = "ask"
       THEN \* lines 272-280
            LET m1 == Append(messages, user_message(q))              \* line 274
                r  == chat_response(q, transcription, m1, out)       \* line 278
            IN  /\ messages' = reply_appended(m1, r.text)
                /\ rerun' = TRUE /\ shown' = {}
                /\ UNCHANGED <<page, transcription, summary, audio_data, audio_path,
                               ppt_path, summary_path, counters, headings>>
                /\ Observe("ask", 1, FALSE,
                           IF r.text.text = "Error" THEN {"Error"} ELSE {})
                /\ history' = r.history
                /\ NoDeck
       ELSE /\ out = "text"
            /\ rerun' = FALSE
            /\ shown' = {"back", "chat_input"}
            /\ UNCHANGED <<session, counters, headings>>
            /\ Observe("chat_page", 0, FALSE, {}) /\ NoDeck /\ NoChat

\* ------------------------------------------------------------- App Flow
\* lines 283-293: the handler the script runs for a value of
\* session_state.page; any other value is replaced by "main"
app_flow(p) == IF p \in Pages THEN p ELSE "main"

\* one run of the script with page "main": every way it can be triggered and
\* everything the speech-to-text library can do
MainRun ==
    /\ app_flow(page) = "main"
    /\ \E ev \in {"rerun", "record", "new_session", "summary", "ppt", "chat"},
          out \in TranscribeOutcomes : main_page(ev, out)

SummaryRun ==
    /\ app_flow(page) = "summary"
    /\ \E ev \in {"rerun", "back", "download"}, out \in GenOutcomes, fileOk \in BOOLEAN :
          summary_page(ev, out, fileOk)

PptRun ==
    /\ app_flow(page) = "ppt"
    /\ \/ \E ev \in {"rerun", "back", "download"} : ppt_page(ev, 0, TRUE)
       \/ \E failAt \in 0..Len(heading_table[headings]) :
             \E saveOk \in (IF failAt > 0 THEN {TRUE} ELSE BOOLEAN) :
                ppt_page("submit", failAt, saveOk)

EditHeadings ==
    /\ app_flow(page) = "ppt"
    /\ \E key \in Chars \cup {"backspace"} : edit_headings(key)

\* QS: the questions a user may ask; maxLog: the length the log may reach
ChatRun(QS, maxLog) ==
    /\ app_flow(page) = "chat"
    /\ \/ \E ev \in {"rerun", "back"} : chat_page(ev, "", "text")
       \/ /\ Len(messages) + 2 <= maxLog
          /\ \E q \in QS, out \in GenOutcomes : chat_page("ask", q, out)

\* The session with short chat logs
Next ==
    \/ MainRun
    \/ SummaryRun
    \/ PptRun
    \/ EditHeadings
    \/ ChatRun(SampleQuestions, SampleMsgs)

Spec == Init /\ [][Next]_vars

\* The session with chat logs up to MaxMsgs, and the headings left as they are
NextChat ==
    \/ MainRun
    \/ SummaryRun
    \/ PptRun
    \/ ChatRun(Questions, MaxMsgs)

SpecChat == Init /\ [][NextChat]_vars

\* ================================================================ claims
SubPages == {"summary", "ppt", "chat"}

\* C1: "New Session" is offered only when audio is present, and the state
\* right after it has no audio (audio_data None, audio_path ""), no
\* transcript and an empty chat log, on the home page
C1_ResetClears ==
    [][lastOp' = "new_session" =>
          /\ page = "main" /\ Truthy(audio_data) /\ "new_session" \in shown
          /\ audio_data' = None
          /\ audio_path' = EmptyStr
          /\ transcription' = <<>>
          /\ messages' = <<>>
          /\ page' = "main"]_vars

\* a reset of a session that had been used: a second recording was taken in
\* and a summary generated before "New Session"
C1_Witness ==
    /\ lastOp = "new_session"
    /\ nRecordings = 2
    /\ Truthy(summary)
    /\ audio_data = None /\ transcription = <<>> /\ messages = <<>>

\* C2: what the summary screen renders, and the deck the deck screen offers
\* for download, were generated from the session's current transcript
C2_ArtifactsOfCurrentTranscript ==
    /\ (lastOp = "summary_page" /\ ~uncaught)
          => summary.prompt.transcription = transcription
    /\ (lastOp \in {"ppt_page", "submit"} /\ "download" \in shown)
          => ppt_path.transcription = transcription

C4_TranscribedOnce == nTranscribe <= 1

\* C8: no run ends in an uncaught exception
C8_NoUncaughtException == ~uncaught

\* the log chat_response read: the log after the run, less the reply
AskedWith == SubSeq(messages, 1, Len(messages) - 1)

\* C5: the HISTORY of the prompt holds at most 5 messages, and they are the
\* last min(5, n) messages of the n-message log, verbatim and in order
C5_HistoryIsLastFive ==
    lastOp = "ask" =>
        LET n == Len(AskedWith)
            k == IF n < 5 THEN n ELSE 5
        IN  /\ Len(history) = k
            /\ Len(history) <= 5
            /\ \A i \in 1..k : history[i] = AskedWith[n - k + i]

\* a question asked with more than 5 messages in the log, the two questions
\* and a failed reply among them
C5_Witness ==
    /\ lastOp = "ask"
    /\ Len(AskedWith) = 7
    /\ history[1] # AskedWith[1]
    /\ \E i, j \in 1..5 : history[i].role = "user" /\ history[j].role = "user"
                          /\ history[i] # history[j]

\* the lines of a headings text, by position: i starts a heading when it is
\* the first character of its line that is not whitespace; the heading runs
\* to the last such character of the line
SameLine(hd, i, j) == \A m \in i..j : hd[m] # NL
HeadingStarts(hd) ==
    {i \in 1..Len(hd) :
        /\ ~IsSpace(hd[i])
        /\ \A j \in 1..(i - 1) : SameLine(hd, j, i) => hd[j] = SP}
HeadingEnd(hd, i) ==
    CHOOSE e \in i..Len(hd) :
        /\ SameLine(hd, i, e) /\ ~IsSpace(hd[e])
        /\ \A m \in (e + 1)..Len(hd) : SameLine(hd, i, m) => hd[m] = SP
\* the i-th smallest element of a set of numbers
Nth(S, i) == CHOOSE x \in S : Cardinality({y \in S : y < x}) = i - 1

\* C6: a successful create_presentation builds 1 + k slides for the k lines
\* that are not blank: the title slide, then one content slide per such line
\* in the order of the lines, titled with the line stripped, and it makes one
\* generative call per content slide
C6_OneSlidePerHeading ==
    (lastOp = "submit" /\ created # None) =>
        LET starts == HeadingStarts(headings)
            k      == Cardinality(starts)
        IN  /\ Len(prs) = 1 + k
            /\ genCalls = k
            /\ prs[1] = [layout |-> 0, title |-> Title]
            /\ \A i \in 1..k :
                  /\ prs[1 + i].layout = 1
                  /\ prs[1 + i].title =
                        SubSeq(headings, Nth(starts, i), HeadingEnd(headings, Nth(starts, i)))

\* a deck exported from a text of two different headings
C6_Witness ==
    /\ lastOp = "submit" /\ created # None
    /\ Cardinality(HeadingStarts(headings)) = 2
    /\ Len(prs) = 3 /\ genCalls = 2
    /\ prs[2].title # prs[3].title

\* C7: a failed export (the error is reported, or the deck is short of a
\* slide or of a generative call) returns None, leaves ppt_path None and
\* offers no download, whatever ppt_path was before
C7_FailedExportNotSurfaced ==
    lastOp = "submit" =>
        LET k      == Cardinality(HeadingStarts(headings))
            failed == "PPT Error" \in errors \/ Len(prs) < 1 + k \/ genCalls < k
        IN  /\ failed <=> created = None
            /\ created = None => "PPT Error" \in errors
            /\ created = None => (ppt_path = None /\ "download" \notin shown)
            /\ created # None => (ppt_path = created /\ "download" \in shown)

\* an export that failed at the second heading, with one content slide built
C7_Witness ==
    /\ lastOp = "submit"
    /\ created = None /\ ppt_path = None
    /\ Len(prs) = 3 /\ genCalls = 2
    /\ "PPT Error" \in errors

\* C9: summary, ppt and chat are shown only with a transcript; they are
\* entered only from home, by a button drawn because there is a transcript;
\* they are left only by "Back", to home; a page value outside the four is
\* taken to home
C9_Navigation ==
    [][/\ page' \in Pages
       /\ page' \in SubPages => transcription' # <<>>
       /\ (page' \in SubPages /\ page' # page)
             => (page = "main" /\ lastOp' = "navigate" /\ "actions" \in shown
                 /\ transcription # <<>>)
       /\ page \in SubPages => page' \in {page, "main"}
       /\ (page \in SubPages /\ page' = "main") => lastOp' = "back"
       /\ app_flow("") = "main" /\ app_flow("home") = "main"]_vars

\* back on home from a sub-page
C9_Witness ==
    /\ lastOp = "back"
    /\ page = "main"
    /\ transcription # <<>>

IsPrefix(a, b) == Len(a) <= Len(b) /\ SubSeq(b, 1, Len(a)) = a
Alternates(msgs) ==
    /\ Len(msgs) % 2 = 0
    /\ \A i \in 1..Len(msgs) :
          msgs[i].role = (IF i % 2 = 1 THEN "user" ELSE "assistant")

\* C10: a question appends one user message and then one assistant message
\* (the reply or the error string); only "New Session" removes messages, and
\* it removes all; after every run the log alternates user, assistant
C10_LogGrowsByExchanges ==
    [][/\ Alternates(messages')
       /\ lastOp' = "ask" =>
             /\ Len(messages') = Len(messages) + 2
             /\ IsPrefix(messages, messages')
             /\ messages'[Len(messages') - 1].content.text \in Questions
             /\ messages'[Len(messages')].content.text \in {"response", "Error"}
       /\ lastOp' = "new_session" => messages' = <<>>
       /\ lastOp' \notin {"ask", "new_session"} => messages' = messages]_vars

\* a log of two exchanges, one of them answered with the error string
C10_Witness ==
    /\ Len(messages) = 4
    /\ \E i \in 1..4 : messages[i].content.text = "Error"
    /\ \E i \in 1..4 : messages[i].content.text = "response"

====
